---- MODULE Spec2Model ----
(***************************************************************************)
(* Verification model of the financial calculation engine of the           *)
(* TheSpreadSheet dashboard: the mortgage amortization engine              *)
(* (monthlyPayment, buildAmortization), the debt / goal payoff engine      *)
(* (monthsBetween, debtMonthlyPayment, the per-goal card computation),     *)
(* the net salary engine (calculateNetSalary, getTaxBand), the retirement   *)
(* projection engine (generateProjectionData), the goal list of the goals  *)
(* page (addGoal, updateSavedInline, removeGoal and their requests) and    *)
(* the month window of the budget page and the dashboard.                  *)
(*                                                                         *)
(* JavaScript numbers are modelled as exact rationals [n, d] in lowest     *)
(* terms (d > 0); the non-finite values of a double are [1,0] (Infinity),  *)
(* [-1,0] (-Infinity) and [0,0] (NaN).  Rounding of the binary             *)
(* representation is not modelled; toFixed(2) is.                          *)
(***************************************************************************)
EXTENDS Integers, Sequences, FiniteSets, TLC

VARIABLES
    \* ---- buildAmortization (mortgage page) ----
    loan, annualRate, years, monthlyOverpay,   \* arguments
    r, n, basePay, pay,                        \* consts computed on entry
    bal, rows, month,                          \* loop state
    principal, interest,                       \* locals of the last iteration
    result,                                    \* the returned (rounded) rows
    pc,                                        \* "start" | "loop" | "break" | "done"
    \* ---- one card of the goals list (goals page) ----
    now,                                       \* new Date(): local calendar date
    tz,                                        \* the browser's offset from UTC, hours
    goal,                                      \* the Goal row being rendered
    card,                                      \* the figures computed for the card
    gpc,                                       \* "pending" | "rendered"
    \* ---- calculateNetSalary (salary page) ----
    salary, pensionPct, hoursPerWeek,          \* arguments
    calc,                                      \* the locals and the returned CalcResult
    spc,                                       \* "pending" | "done"
    \* ---- generateProjectionData (retirement page) ----
    startingPot, monthlyContribution,          \* arguments
    nominalReturnPct, annualFeesPct,
    monthsToGrow,                              \* the argument months
    monthlyNet, pot, data,                     \* locals
    idx,                                       \* the loop index i
    recordedAt,                                \* history: the index of each pushed point
    ppc,                                       \* "start" | "loop" | "done"
    \* ---- GoalsManager: the goal list and its requests (goals page) ----
    goals,                                     \* useState<Goal[]>
    inflight,                                  \* awaited insert / delete requests
    nextId,                                    \* crypto.randomUUID(): the next fresh id
    alertMsg,                                  \* the text of the alert just shown, or ""
    lpc,                                       \* "idle" | "ready"
    \* ---- BudgetApp / dashboard: the month window (read with now and tz) ----
    monthStartStr, monthEndStr,                \* 'yyyy-mm-dd' bounds of the query
    wpc                                        \* "idle" | "pending" | "done"

mvars == <<loan, annualRate, years, monthlyOverpay, r, n, basePay, pay,
           bal, rows, month, principal, interest, result, pc>>

gvars == <<now, tz, goal, card, gpc>>

svars == <<salary, pensionPct, hoursPerWeek, calc, spc>>

pvars == <<startingPot, monthlyContribution, nominalReturnPct, annualFeesPct,
           monthsToGrow, monthlyNet, pot, data, idx, recordedAt, ppc>>

lvars == <<goals, inflight, nextId, alertMsg, lpc>>

wvars == <<monthStartStr, monthEndStr, wpc>>

vars == <<mvars, gvars, svars, pvars, lvars, wvars>>

-----------------------------------------------------------------------------
(* Exact arithmetic on JavaScript numbers *)

Abs(x) == IF x < 0 THEN -x ELSE x
Sgn(x) == IF x < 0 THEN -1 ELSE IF x > 0 THEN 1 ELSE 0

RECURSIVE GCD(_, _)
GCD(a, b) == IF b = 0 THEN a ELSE GCD(b, a % b)

NaN == [n |-> 0, d |-> 0]
PosInf == [n |-> 1, d |-> 0]
NegInf == [n |-> -1, d |-> 0]
IsFin(x) == x.d # 0
IsNaN(x) == x = NaN

\* the rational num/den in lowest terms (den # 0)
R(num, den) ==
    LET g == GCD(Abs(num), Abs(den))
    IN  [n |-> Sgn(den) * (num \div g), d |-> Abs(den) \div g]

RInt(k) == [n |-> k, d |-> 1]
Zero == RInt(0)
One == RInt(1)

RNeg(a) == [n |-> -a.n, d |-> a.d]

RAdd(a, b) ==
    IF IsFin(a) /\ IsFin(b)
    THEN LET g == GCD(a.d, b.d)
         IN  R(a.n * (b.d \div g) + b.n * (a.d \div g), (a.d \div g) * b.d)
    ELSE IF IsNaN(a) \/ IsNaN(b) THEN NaN
    ELSE IF IsFin(a) THEN b
    ELSE IF IsFin(b) THEN a
    ELSE IF a = b THEN a ELSE NaN

RSub(a, b) == RAdd(a, RNeg(b))

RMul(a, b) ==
    IF IsFin(a) /\ IsFin(b)
    THEN LET g1 == GCD(Abs(a.n), b.d)
             g2 == GCD(Abs(b.n), a.d)
         IN  R((a.n \div g1) * (b.n \div g2), (a.d \div g2) * (b.d \div g1))
    ELSE [n |-> Sgn(a.n) * Sgn(b.n), d |-> 0]

RInv(a) ==
    IF IsFin(a)
    THEN IF a.n = 0 THEN PosInf ELSE R(a.d, a.n)
    ELSE IF IsNaN(a) THEN NaN ELSE Zero

RDiv(a, b) == RMul(a, RInv(b))

RLt(a, b) ==
    IF IsFin(a) /\ IsFin(b)
    THEN LET g == GCD(a.d, b.d)
         IN  a.n * (b.d \div g) < b.n * (a.d \div g)
    ELSE /\ ~IsNaN(a) /\ ~IsNaN(b)
         /\ a # b
         /\ (a = NegInf \/ b = PosInf)

RLe(a, b) == ~IsNaN(a) /\ ~IsNaN(b) /\ (a = b \/ RLt(a, b))
RGt(a, b) == RLt(b, a)
RGe(a, b) == RLe(b, a)

\* Math.max / Math.min (NaN if either argument is NaN)
MathMax(a, b) == IF IsNaN(a) \/ IsNaN(b) THEN NaN ELSE IF RLt(a, b) THEN b ELSE a
MathMin(a, b) == IF IsNaN(a) \/ IsNaN(b) THEN NaN ELSE IF RLt(b, a) THEN b ELSE a

\* Math.pow(x, k) for an integer exponent k >= 0
RECURSIVE PowInt(_, _)
PowInt(x, k) == IF k = 0 THEN One ELSE RMul(x, PowInt(x, k - 1))

\* Math.pow(x, e): the inputs of the model keep the exponent a whole number
\* >= 0 wherever the power is evaluated (an irrational power has no exact value)
MathPow(x, e) == PowInt(x, e.n)

\* Math.ceil of a finite number, as an integer
CeilInt(x) == -((-x.n) \div x.d)
\* Math.ceil(m / k) for integers m, k > 0
MathCeilDiv(m, k) == -((-m) \div k)

\* Number(x.toFixed(2)): nearest multiple of 0.01, ties away from zero
ToFixed2(x) ==
    IF ~IsFin(x) THEN x
    ELSE LET a   == Abs(x.n)
             q   == a \div x.d
             rem == a % x.d
             c   == (rem * 100) \div x.d
             rr  == (rem * 100) % x.d
             cents == q * 100 + c + (IF 2 * rr >= x.d THEN 1 ELSE 0)
         IN  R(Sgn(x.n) * cents, 100)

-----------------------------------------------------------------------------
(* Mortgage amortization engine *)

SafetyMonths == 600
MonthsPerYear == 12

\* monthlyPayment with the guard written n < 0
monthlyPayment_StrictGuard(loan_, annualRate_, years_) ==
    LET r_ == RDiv(RDiv(annualRate_, RInt(100)), RInt(12))
        n_ == RMul(years_, RInt(MonthsPerYear))
    IN  IF RLt(n_, Zero) THEN Zero
        ELSE IF r_ = Zero THEN RDiv(loan_, n_)
        ELSE LET f == MathPow(RAdd(One, r_), n_)
             IN  RDiv(RMul(RMul(loan_, r_), f), RSub(f, One))

\* the payment taken as loan / n whatever the rate
monthlyPayment_FlatRate(loan_, annualRate_, years_) ==
    LET n_ == RMul(years_, RInt(MonthsPerYear))
    IN  IF RLe(n_, Zero) THEN Zero ELSE RDiv(loan_, n_)

monthlyPayment(loan_, annualRate_, years_) ==
    LET r_ == RDiv(RDiv(annualRate_, RInt(100)), RInt(12))
        n_ == RMul(years_, RInt(MonthsPerYear))
    IN  IF RLe(n_, Zero) THEN Zero
        ELSE IF r_ = Zero THEN RDiv(loan_, n_)
        ELSE LET f == MathPow(RAdd(One, r_), n_)
             IN  RDiv(RMul(RMul(loan_, r_), f), RSub(f, One))

\* the overpayment taken off the payment instead of added to it
TotalPay_Subtract(basePay_, monthlyOverpay_) == RSub(basePay_, monthlyOverpay_)

\* const pay = basePay + monthlyOverpay
TotalPay(basePay_, monthlyOverpay_) == RAdd(basePay_, monthlyOverpay_)

\* the loop guard written month <= n + 600
LoopCond_OffByOne(bal_, month_, n_) ==
    RGt(bal_, Zero) /\ RLe(RInt(month_), RAdd(n_, RInt(SafetyMonths)))

\* while (bal > 0 && month < n + 600)
LoopCond(bal_, month_, n_) ==
    RGt(bal_, Zero) /\ RLt(RInt(month_), RAdd(n_, RInt(SafetyMonths)))

\* the year index taken with Math.floor(month / 12)
yearIndex_Floor(month_) == month_ \div MonthsPerYear

\* const yearIndex = Math.ceil(month / 12) - 1
yearIndex(month_) == MathCeilDiv(month_, MonthsPerYear) - 1

\* the principal component left uncapped
CapPrincipal_NoCap(principal_, bal_) == principal_

\* if (principal > bal) principal = bal
CapPrincipal(principal_, bal_) ==
    IF RGt(principal_, bal_) THEN bal_ ELSE principal_

\* the new balance rounded to pence every month
NextBal_Rounded(bal_, principal_) == ToFixed2(MathMax(Zero, RSub(bal_, principal_)))

\* bal = Math.max(0, bal - principal)
NextBal(bal_, principal_) == MathMax(Zero, RSub(bal_, principal_))

\* if (pay <= interest && r > 0) break
SafetyBreak(pay_, interest_, r_) == RLe(pay_, interest_) /\ RGt(r_, Zero)

\* the month's figures assigned to the row instead of added to it
AccumulateRow_Overwrite(rows_, yi, principal_, interest_) ==
    LET rs == IF yi + 1 \in DOMAIN rows_ THEN rows_
              ELSE Append(rows_, [year |-> yi + 1, Principal |-> Zero, Interest |-> Zero])
    IN  [rs EXCEPT ![yi + 1].Principal = principal_,
                   ![yi + 1].Interest = interest_]

\* rows[yearIndex] is created on first use, then accumulated into
AccumulateRow(rows_, yi, principal_, interest_) ==
    LET rs == IF yi + 1 \in DOMAIN rows_ THEN rows_
              ELSE Append(rows_, [year |-> yi + 1, Principal |-> Zero, Interest |-> Zero])
    IN  [rs EXCEPT ![yi + 1].Principal = RAdd(@, principal_),
                   ![yi + 1].Interest = RAdd(@, interest_)]

\* one execution of the body of the while loop on the loop state s
LoopBody(s, pay_, r_) ==
    LET m_  == s.month + 1
        yi  == yearIndex(m_)
        int == RMul(s.bal, r_)
        pr  == CapPrincipal(RSub(pay_, int), s.bal)
    IN  [bal       |-> NextBal(s.bal, pr),
         month     |-> m_,
         rows      |-> AccumulateRow(s.rows, yi, pr, int),
         principal |-> pr,
         interest  |-> int,
         brk       |-> SafetyBreak(pay_, int, r_)]

\* rows.map(x => ({year, Principal: Number(x.Principal.toFixed(2)), ...}))
RoundRows(rows_) ==
    [i \in DOMAIN rows_ |->
        [year |-> rows_[i].year,
         Principal |-> ToFixed2(rows_[i].Principal),
         Interest |-> ToFixed2(rows_[i].Interest)]]

\* the while loop of buildAmortization run to its end from loop state s
RECURSIVE RunLoop(_, _, _, _)
RunLoop(s, pay_, r_, n_) ==
    IF s.brk \/ ~LoopCond(s.bal, s.month, n_) THEN s
    ELSE RunLoop(LoopBody(s, pay_, r_), pay_, r_, n_)

\* the loop state on entry: let bal = loan; rows = []; month = 0
EntryState(loan_) ==
    [bal |-> loan_, month |-> 0, rows |-> <<>>,
     principal |-> Zero, interest |-> Zero, brk |-> FALSE]

\* the final loop state of buildAmortization(loan, annualRate, years, monthlyOverpay)
FinalLoopState(loan_, annualRate_, years_, monthlyOverpay_) ==
    LET r_   == RDiv(RDiv(annualRate_, RInt(100)), RInt(12))
        n_   == RMul(years_, RInt(MonthsPerYear))
        pay_ == TotalPay(monthlyPayment(loan_, annualRate_, years_), monthlyOverpay_)
    IN  RunLoop(EntryState(loan_), pay_, r_, n_)

buildAmortization(loan_, annualRate_, years_, monthlyOverpay_) ==
    RoundRows(FinalLoopState(loan_, annualRate_, years_, monthlyOverpay_).rows)

\* amortizationData.reduce((sum, y) => sum + y.Interest, 0)
RECURSIVE SumInterest(_, _)
SumInterest(rows_, i) ==
    IF i = 0 THEN Zero ELSE RAdd(SumInterest(rows_, i - 1), rows_[i].Interest)
totalInterest(rows_) == SumInterest(rows_, Len(rows_))

RECURSIVE SumPrincipal(_, _)
SumPrincipal(rows_, i) ==
    IF i = 0 THEN Zero ELSE RAdd(SumPrincipal(rows_, i - 1), rows_[i].Principal)
totalPrincipal(rows_) == SumPrincipal(rows_, Len(rows_))

-----------------------------------------------------------------------------
(* Inputs of the mortgage engine *)

MaxLoanUnits == 2
MaxTermMonths == 14

Loans == {RInt(60 * k) : k \in 0..MaxLoanUnits}

\* terms, in years, used with a zero rate (whole, fractional, zero, negative)
ZeroRateYears == {R(1, 24), R(1, 12), One, RInt(2), Zero, RInt(-1), RInt(-51)}

\* <<annualRate, years>>; a positive rate comes with a whole number of months
RateTerms ==
    ({Zero} \X ZeroRateYears)
    \cup ({RInt(1200)} \X ({R(k, 12) : k \in {1, 2, 12, 13, MaxTermMonths}} \cup {Zero, RInt(-1)}))
    \cup ({RInt(600)} \X {R(k, 12) : k \in 1..3})
    \cup ({RInt(6)} \X {R(k, 12) : k \in 1..2})

Overpays == {RInt(k) : k \in {0, 1, 7, 60, 1000, -5, -70, -200}}

MortgageIdle ==
    /\ loan = Zero /\ annualRate = Zero /\ years = Zero /\ monthlyOverpay = Zero
    /\ r = Zero /\ n = Zero /\ basePay = Zero /\ pay = Zero
    /\ bal = Zero /\ rows = <<>> /\ month = 0
    /\ principal = Zero /\ interest = Zero /\ result = <<>>
    /\ pc = "idle"

MortgageInit ==
    /\ loan \in Loans
    /\ \E rt \in RateTerms : annualRate = rt[1] /\ years = rt[2]
    /\ monthlyOverpay \in Overpays
    /\ r = Zero /\ n = Zero /\ basePay = Zero /\ pay = Zero
    /\ bal = Zero /\ rows = <<>> /\ month = 0
    /\ principal = Zero /\ interest = Zero /\ result = <<>>
    /\ pc = "start"

\* lines 31-38: the constants and the initial loop state
Enter ==
    /\ pc = "start"
    /\ r' = RDiv(RDiv(annualRate, RInt(100)), RInt(12))
    /\ n' = RMul(years, RInt(MonthsPerYear))
    /\ basePay' = monthlyPayment(loan, annualRate, years)
    /\ pay' = TotalPay(basePay', monthlyOverpay)
    /\ bal' = loan
    /\ rows' = <<>>
    /\ month' = 0
    /\ pc' = "loop"
    /\ UNCHANGED <<loan, annualRate, years, monthlyOverpay, principal, interest, result>>
    /\ UNCHANGED <<gvars, svars, pvars, lvars, wvars>>

\* lines 40-58: one month
Month ==
    /\ pc = "loop"
    /\ LoopCond(bal, month, n)
    /\ LET s == LoopBody([bal |-> bal, month |-> month, rows |-> rows], pay, r)
       IN  /\ bal' = s.bal
           /\ month' = s.month
           /\ rows' = s.rows
           /\ principal' = s.principal
           /\ interest' = s.interest
           /\ pc' = IF s.brk THEN "break" ELSE "loop"
    /\ UNCHANGED <<loan, annualRate, years, monthlyOverpay, r, n, basePay, pay, result>>
    /\ UNCHANGED <<gvars, svars, pvars, lvars, wvars>>

\* lines 60-65: the loop has ended; round and return
Return ==
    /\ \/ pc = "break"
       \/ pc = "loop" /\ ~LoopCond(bal, month, n)
    /\ result' = RoundRows(rows)
    /\ pc' = "done"
    /\ UNCHANGED <<loan, annualRate, years, monthlyOverpay, r, n, basePay, pay,
                   bal, rows, month, principal, interest>>
    /\ UNCHANGED <<gvars, svars, pvars, lvars, wvars>>

MortgageNext == Enter \/ Month \/ Return

-----------------------------------------------------------------------------
(* Calendar dates and JavaScript Date *)

IsLeap(y) == (y % 4 = 0 /\ y % 100 # 0) \/ y % 400 = 0

\* days of month m0 (0-based, as Date.getMonth) of year y
DaysInMonth(y, m0) ==
    IF m0 = 1 THEN (IF IsLeap(y) THEN 29 ELSE 28)
    ELSE IF m0 \in {3, 5, 8, 10} THEN 30 ELSE 31

\* the calendar day before dt = [y, m, d] (m 0-based)
PrevDay(dt) ==
    IF dt.d > 1 THEN [dt EXCEPT !.d = dt.d - 1]
    ELSE IF dt.m > 0 THEN [y |-> dt.y, m |-> dt.m - 1, d |-> DaysInMonth(dt.y, dt.m - 1)]
    ELSE [y |-> dt.y - 1, m |-> 11, d |-> 31]

InvalidDate == [invalid |-> TRUE]

\* a 'yyyy-mm-dd' string (month 1..12), or a string that is no date
DateString(y, mm, d) == [text |-> "date", y |-> y, mm |-> mm, d |-> d]
NoDateString == [text |-> "other"]

\* new Date(s) followed by getFullYear / getMonth / getDate: a date-only
\* string is midnight UTC of that day, and the getters read it in local time,
\* which west of Greenwich is still the evening of the day before
NewDateLocal(s, tz_) ==
    IF s.text # "date" THEN InvalidDate
    ELSE LET utc == [y |-> s.y, m |-> s.mm - 1, d |-> s.d]
         IN  IF tz_ < 0 THEN PrevDay(utc) ELSE utc

-----------------------------------------------------------------------------
(* Debt / goal payoff engine *)

\* the month count returned without the floor at 0
ClampMonths_None(months) == months

\* Math.max(0, months) on whole numbers
ClampMonths(months) == IF months < 0 THEN 0 ELSE months

\* if (end.getDate() < start.getDate()) months -= 1
CompletedMonths(months, endDay, startDay) ==
    IF endDay < startDay THEN months - 1 ELSE months

monthsBetween(startDate, endDate, tz_) ==
    LET start == [y |-> startDate.y, m |-> startDate.m, d |-> startDate.d]
        end   == NewDateLocal(endDate, tz_)
    IN  IF end = InvalidDate THEN 0
        ELSE LET months == (end.y - start.y) * 12 + (end.m - start.m)
             IN  ClampMonths(CompletedMonths(months, end.d, start.d))

\* debtMonthlyPayment with the factor f left out of the numerator
debtMonthlyPayment_NoGrowth(balance, aprPct, months) ==
    IF months <= 0 THEN Zero
    ELSE LET r_ == RDiv(RDiv(IF aprPct = Zero \/ IsNaN(aprPct) THEN Zero ELSE aprPct,
                             RInt(100)), RInt(12))
         IN  IF RLe(r_, Zero) THEN RDiv(balance, RInt(months))
             ELSE LET f == PowInt(RAdd(One, r_), months)
                  IN  RDiv(RMul(balance, r_), RSub(f, One))

debtMonthlyPayment(balance, aprPct, months) ==
    IF months <= 0 THEN Zero
    ELSE LET r_ == RDiv(RDiv(IF aprPct = Zero \/ IsNaN(aprPct) THEN Zero ELSE aprPct,
                             RInt(100)), RInt(12))
         IN  IF RLe(r_, Zero) THEN RDiv(balance, RInt(months))
             ELSE LET f == PowInt(RAdd(One, r_), months)
                  IN  RDiv(RMul(RMul(balance, r_), f), RSub(f, One))

Null == [null |-> TRUE]

\* goal.interest_rate ?? 0
OrZero(v) == IF v = Null THEN Zero ELSE v

\* the required amount divided out without the monthsLeft > 0 test
MonthlyNeedSavings_NoGuard(type_, remaining, monthsLeft) ==
    IF type_ = "goal" THEN RDiv(remaining, RInt(monthsLeft)) ELSE Zero

\* monthlyNeedSavings = type === 'goal' && monthsLeft > 0 ? remaining / monthsLeft : 0
MonthlyNeedSavings(type_, remaining, monthsLeft) ==
    IF type_ = "goal" /\ monthsLeft > 0 THEN RDiv(remaining, RInt(monthsLeft)) ELSE Zero

\* the total cost always taken as payment times months
TotalCostDebt_AlwaysProduct(g, monthlyPaymentDebt, monthsLeft) ==
    RMul(monthlyPaymentDebt, RInt(monthsLeft))

\* totalCostDebt = type === 'debt' && monthsLeft > 0 ? monthlyPaymentDebt * monthsLeft : goal.target
TotalCostDebt(g, monthlyPaymentDebt, monthsLeft) ==
    IF g.type = "debt" /\ monthsLeft > 0
    THEN RMul(monthlyPaymentDebt, RInt(monthsLeft)) ELSE g.target

\* the figures of one card of goals.map(...), rendered on local date today
GoalCard(g, today, tz_) ==
    LET monthsLeft == monthsBetween(today, g.deadline, tz_)
        remaining  == MathMax(Zero, IF g.type = "goal" THEN RSub(g.target, g.saved)
                                    ELSE g.target)
        monthlyNeedSavings == MonthlyNeedSavings(g.type, remaining, monthsLeft)
        pct == IF g.type = "goal"
               THEN (IF RGt(g.target, Zero)
                     THEN RMul(RDiv(g.saved, g.target), RInt(100)) ELSE Zero)
               ELSE Zero
        monthlyPaymentDebt ==
            IF g.type = "debt" /\ monthsLeft > 0
            THEN debtMonthlyPayment(g.target, OrZero(g.interest_rate), monthsLeft)
            ELSE Zero
        totalCostDebt == TotalCostDebt(g, monthlyPaymentDebt, monthsLeft)
        totalInterestDebt ==
            IF g.type = "debt" /\ monthsLeft > 0
            THEN RSub(totalCostDebt, g.target) ELSE Zero
    IN  [monthsLeft |-> monthsLeft,
         remaining |-> remaining,
         monthlyNeedSavings |-> monthlyNeedSavings,
         pct |-> pct,
         monthlyPaymentDebt |-> monthlyPaymentDebt,
         totalCostDebt |-> totalCostDebt,
         totalInterestDebt |-> totalInterestDebt]

-----------------------------------------------------------------------------
(* Inputs of the payoff engine *)

MaxMonthSpan == 14
MaxNowMonths == 3

\* the i-th calendar month counted from December 2023, as [y, m]
MonthAt(i) == [y |-> (2023 * 12 + 11 + i) \div 12, m |-> (2023 * 12 + 11 + i) % 12]

DayChoices == {1, 15, 28, 29, 30, 31}

DatesIn(is) ==
    {[y |-> MonthAt(i).y, m |-> MonthAt(i).m, d |-> d] :
        <<i, d>> \in {p \in is \X DayChoices :
                        p[2] <= DaysInMonth(MonthAt(p[1]).y, MonthAt(p[1]).m)}}

\* today: January 2024 onwards
NowDates == DatesIn(1..MaxNowMonths)

\* deadlines: December 2023 onwards, or no date at all
Deadlines ==
    {DateString(dt.y, dt.m + 1, dt.d) : dt \in DatesIn(0..MaxMonthSpan)}
        \cup {NoDateString}

TimeZones == {-5, 0, 1}

SavingsGoals ==
    {[type |-> "goal", target |-> RInt(t), saved |-> RInt(sv),
      deadline |-> dl, interest_rate |-> Null] :
        <<t, sv, dl>> \in {10, 100} \X {0, 4, 10, 25} \X Deadlines}

Debts ==
    {[type |-> "debt", target |-> RInt(t), saved |-> Zero,
      deadline |-> dl, interest_rate |-> apr] :
        <<t, apr, dl>> \in {0, 10} \X {Null, Zero, RInt(600), RInt(1200), RInt(-12)}
                              \X Deadlines}

NoCard == [monthsLeft |-> 0, remaining |-> Zero, monthlyNeedSavings |-> Zero,
           pct |-> Zero, monthlyPaymentDebt |-> Zero, totalCostDebt |-> Zero,
           totalInterestDebt |-> Zero]

GoalIdle ==
    /\ now = [y |-> 2024, m |-> 0, d |-> 1]
    /\ tz = 0
    /\ goal = [type |-> "goal", target |-> Zero, saved |-> Zero,
               deadline |-> NoDateString, interest_rate |-> Null]
    /\ card = NoCard
    /\ gpc = "idle"

GoalInit ==
    /\ now \in NowDates
    /\ tz \in TimeZones
    /\ goal \in SavingsGoals \cup Debts
    /\ card = NoCard
    /\ gpc = "pending"

\* lines 619-640: the body of goals.map for one goal
RenderCard ==
    /\ gpc = "pending"
    /\ card' = GoalCard(goal, now, tz)
    /\ gpc' = "rendered"
    /\ UNCHANGED <<now, tz, goal>>
    /\ UNCHANGED <<mvars, svars, pvars, lvars, wvars>>

PayoffNext == RenderCard

-----------------------------------------------------------------------------
(* Month window of the budget page and the dashboard *)

\* new Date(y, m0, d) read back in local time: month 12 is January of the
\* next year, day 0 is the last day of the month before
NewDateYMD(y, m0, d) ==
    LET yy == y + m0 \div 12
        mm == m0 % 12
    IN  IF d = 0 THEN PrevDay([y |-> yy, m |-> mm, d |-> 1])
        ELSE [y |-> yy, m |-> mm, d |-> d]

\* toISOString().slice(0, 10) of a local midnight: the UTC instant is tz_
\* hours earlier, which east of Greenwich is the evening of the day before
ToISODate(dt, tz_) ==
    LET utc == IF tz_ > 0 THEN PrevDay(dt) ELSE dt
    IN  DateString(utc.y, utc.m + 1, utc.d)

MonthStartStr(now_, tz_) == ToISODate(NewDateYMD(now_.y, now_.m, 1), tz_)

MonthEndStr(now_, tz_) == ToISODate(NewDateYMD(now_.y, now_.m + 1, 0), tz_)

MaxWindowMonths == 14

\* today on the budget page: December 2023 onwards
WindowNows == DatesIn(0..MaxWindowMonths)

WindowIdle ==
    /\ monthStartStr = NoDateString
    /\ monthEndStr = NoDateString
    /\ wpc = "idle"

WindowInit ==
    /\ now \in WindowNows
    /\ tz \in TimeZones
    /\ goal = [type |-> "goal", target |-> Zero, saved |-> Zero,
               deadline |-> NoDateString, interest_rate |-> Null]
    /\ card = NoCard
    /\ gpc = "idle"
    /\ monthStartStr = NoDateString
    /\ monthEndStr = NoDateString
    /\ wpc = "pending"

\* one render of the page: now, monthStart, monthEnd and the two strings
ComputeWindow ==
    /\ wpc = "pending"
    /\ monthStartStr' = MonthStartStr(now, tz)
    /\ monthEndStr' = MonthEndStr(now, tz)
    /\ wpc' = "done"
    /\ UNCHANGED <<mvars, gvars, svars, pvars, lvars>>

WindowNext == ComputeWindow

-----------------------------------------------------------------------------
(* Net salary engine (salary page) *)

\* Math.floor of a finite number
MathFloor(x) == IF IsFin(x) THEN RInt(x.n \div x.d) ELSE x

\* x || dflt on numbers: 0 and NaN are falsy
OrElse(x, dflt) == IF IsNaN(x) \/ x = Zero THEN dflt ELSE x

\* clamp without the upper and lower limits
clamp_NoLimits(v, min_, max_) == v

clamp(v, min_, max_) == MathMin(max_, MathMax(min_, v))

personalAllowance == RInt(12570)
basicRateLimit == RInt(50270)
additionalRateLimit == RInt(125140)
taperStart == RInt(100000)
basicRate == R(20, 100)
higherRate == R(40, 100)
additionalRate == R(45, 100)
niThreshold == RInt(12570)
niRate == R(12, 100)
DefaultHours == R(75, 2)
MinHours == RInt(10)
MaxHours == RInt(80)

\* getTaxBand with the edges counted into the upper band (>= for >)
getTaxBand_Inclusive(salaryAfterPension) ==
    IF RGe(salaryAfterPension, additionalRateLimit)
    THEN [label |-> "Very High Earner", color |-> "bg-red-600"]
    ELSE IF RGe(salaryAfterPension, basicRateLimit)
    THEN [label |-> "Higher Rate Payer", color |-> "bg-yellow-500"]
    ELSE [label |-> "Basic Rate Payer", color |-> "bg-green-600"]

getTaxBand(salaryAfterPension) ==
    IF RGt(salaryAfterPension, additionalRateLimit)
    THEN [label |-> "Very High Earner", color |-> "bg-red-600"]
    ELSE IF RGt(salaryAfterPension, basicRateLimit)
    THEN [label |-> "Higher Rate Payer", color |-> "bg-yellow-500"]
    ELSE [label |-> "Basic Rate Payer", color |-> "bg-green-600"]

\* const pension = Math.max(0, (salary * (pensionPct || 0)) / 100)
Pension(salary_, pensionPct_) ==
    MathMax(Zero, RDiv(RMul(salary_, OrElse(pensionPct_, Zero)), RInt(100)))

\* the pension contribution not taken off the salary
SalaryAfterPension_Gross(salary_, pension_) == MathMax(Zero, salary_)

\* const salaryAfterPension = Math.max(0, salary - pension)
SalaryAfterPension(salary_, pension_) == MathMax(Zero, RSub(salary_, pension_))

\* the taper without Math.floor
TaperedAllowance_NoFloor(salaryAfterPension) ==
    IF RGt(salaryAfterPension, taperStart)
    THEN LET reduction == MathMin(personalAllowance,
                                  RDiv(RSub(salaryAfterPension, taperStart), RInt(2)))
         IN  MathMax(Zero, RSub(personalAllowance, reduction))
    ELSE personalAllowance

\* the taper applied up to 125,140 only, the full allowance given back above
TaperedAllowance_Restored(salaryAfterPension) ==
    IF RGt(salaryAfterPension, taperStart) /\ RLe(salaryAfterPension, additionalRateLimit)
    THEN LET reduction == MathMin(personalAllowance,
                                  MathFloor(RDiv(RSub(salaryAfterPension, taperStart), RInt(2))))
         IN  MathMax(Zero, RSub(personalAllowance, reduction))
    ELSE personalAllowance

\* PA taper above 100k
TaperedAllowance(salaryAfterPension) ==
    IF RGt(salaryAfterPension, taperStart)
    THEN LET reduction == MathMin(personalAllowance,
                                  MathFloor(RDiv(RSub(salaryAfterPension, taperStart), RInt(2))))
         IN  MathMax(Zero, RSub(personalAllowance, reduction))
    ELSE personalAllowance

\* taxable income without the allowance
TaxableIncome_NoAllowance(salaryAfterPension, taperedAllowance) ==
    MathMax(Zero, salaryAfterPension)

TaxableIncome(salaryAfterPension, taperedAllowance) ==
    MathMax(Zero, RSub(salaryAfterPension, taperedAllowance))

\* which arm of the if / else if / else computes the income tax
TaxBranch(salaryAfterPension) ==
    IF RLe(salaryAfterPension, basicRateLimit) THEN "basic"
    ELSE IF RLe(salaryAfterPension, additionalRateLimit) THEN "higher"
    ELSE "additional"

\* the higher arm taxing the whole taxable income at 40%
BandAmounts_Cliff(salaryAfterPension, taperedAllowance, taxableIncome) ==
    LET basicBand == MathMax(Zero, RSub(basicRateLimit, taperedAllowance))
    IN  CASE TaxBranch(salaryAfterPension) = "basic" ->
               [at20 |-> taxableIncome, at40 |-> Zero, at45 |-> Zero]
          [] TaxBranch(salaryAfterPension) = "higher" ->
               [at20 |-> Zero, at40 |-> taxableIncome, at45 |-> Zero]
          [] OTHER ->
               [at20 |-> basicBand,
                at40 |-> RSub(additionalRateLimit, basicRateLimit),
                at45 |-> RSub(salaryAfterPension, additionalRateLimit)]

\* the additional arm taking the 40% band up to the salary instead of 125,140
BandAmounts_Overlap(salaryAfterPension, taperedAllowance, taxableIncome) ==
    LET basicBand == MathMax(Zero, RSub(basicRateLimit, taperedAllowance))
    IN  CASE TaxBranch(salaryAfterPension) = "basic" ->
               [at20 |-> taxableIncome, at40 |-> Zero, at45 |-> Zero]
          [] TaxBranch(salaryAfterPension) = "higher" ->
               [at20 |-> basicBand,
                at40 |-> RSub(salaryAfterPension, basicRateLimit),
                at45 |-> Zero]
          [] OTHER ->
               [at20 |-> basicBand,
                at40 |-> RSub(salaryAfterPension, basicRateLimit),
                at45 |-> RSub(salaryAfterPension, additionalRateLimit)]

\* the amounts each arm multiplies by basicRate, higherRate, additionalRate
BandAmounts(salaryAfterPension, taperedAllowance, taxableIncome) ==
    LET basicBand == MathMax(Zero, RSub(basicRateLimit, taperedAllowance))
    IN  CASE TaxBranch(salaryAfterPension) = "basic" ->
               [at20 |-> taxableIncome, at40 |-> Zero, at45 |-> Zero]
          [] TaxBranch(salaryAfterPension) = "higher" ->
               [at20 |-> basicBand,
                at40 |-> RSub(salaryAfterPension, basicRateLimit),
                at45 |-> Zero]
          [] OTHER ->
               [at20 |-> basicBand,
                at40 |-> RSub(additionalRateLimit, basicRateLimit),
                at45 |-> RSub(salaryAfterPension, additionalRateLimit)]

\* incomeTax = ... * basicRate; incomeTax += ... * higherRate; += ... * additionalRate
IncomeTax(amounts) ==
    RAdd(RAdd(RMul(amounts.at20, basicRate), RMul(amounts.at40, higherRate)),
         RMul(amounts.at45, additionalRate))

\* NI at 2% above the basic rate limit
NationalInsurance_UpperLimit(salaryAfterPension) ==
    IF RGt(salaryAfterPension, basicRateLimit)
    THEN RAdd(RMul(RSub(basicRateLimit, niThreshold), niRate),
              RMul(RSub(salaryAfterPension, basicRateLimit), R(2, 100)))
    ELSE IF RGt(salaryAfterPension, niThreshold)
    THEN RMul(RSub(salaryAfterPension, niThreshold), niRate)
    ELSE Zero

NationalInsurance(salaryAfterPension) ==
    IF RGt(salaryAfterPension, niThreshold)
    THEN RMul(RSub(salaryAfterPension, niThreshold), niRate)
    ELSE Zero

\* Math.min written for Math.max
NetAnnual_Min(salaryAfterPension, incomeTax, ni) ==
    MathMin(Zero, RSub(RSub(salaryAfterPension, incomeTax), ni))

\* const netAnnual = Math.max(0, salaryAfterPension - incomeTax - ni)
NetAnnual(salaryAfterPension, incomeTax, ni) ==
    MathMax(Zero, RSub(RSub(salaryAfterPension, incomeTax), ni))

\* const effectiveTaxRate = salary > 0 ? ((incomeTax + ni) / salary) * 100 : 0
EffectiveTaxRate(salary_, incomeTax, ni) ==
    IF RGt(salary_, Zero)
    THEN RMul(RDiv(RAdd(incomeTax, ni), salary_), RInt(100))
    ELSE Zero

\* const weeklyHours = clamp(hoursPerWeek || 37.5, 10, 80)
WeeklyHours(hoursPerWeek_) == clamp(OrElse(hoursPerWeek_, DefaultHours), MinHours, MaxHours)

calculateNetSalary(salary_, pensionPct_, hoursPerWeek_) ==
    LET pension            == Pension(salary_, pensionPct_)
        salaryAfterPension == SalaryAfterPension(salary_, pension)
        taperedAllowance   == TaperedAllowance(salaryAfterPension)
        taxableIncome      == TaxableIncome(salaryAfterPension, taperedAllowance)
        amounts            == BandAmounts(salaryAfterPension, taperedAllowance, taxableIncome)
        incomeTax          == IncomeTax(amounts)
        ni                 == NationalInsurance(salaryAfterPension)
        netAnnual          == NetAnnual(salaryAfterPension, incomeTax, ni)
        netWeekly          == RDiv(netAnnual, RInt(52))
        weeklyHours        == WeeklyHours(hoursPerWeek_)
        bandInfo           == getTaxBand(salaryAfterPension)
    IN  [pension            |-> pension,
         salaryAfterPension |-> salaryAfterPension,
         taperedAllowance   |-> taperedAllowance,
         taxableIncome      |-> taxableIncome,
         branch             |-> TaxBranch(salaryAfterPension),
         amounts            |-> amounts,
         incomeTax          |-> incomeTax,
         nationalInsurance  |-> ni,
         netAnnual          |-> netAnnual,
         netMonthly         |-> RDiv(netAnnual, RInt(12)),
         bandLabel          |-> bandInfo.label,
         bandColor          |-> bandInfo.color,
         effectiveTaxRate   |-> EffectiveTaxRate(salary_, incomeTax, ni),
         netWeekly          |-> netWeekly,
         netDaily           |-> RDiv(netWeekly, RInt(5)),
         weeklyHours        |-> weeklyHours,
         netHourly          |-> RDiv(netWeekly, weeklyHours)]

-----------------------------------------------------------------------------
(* Inputs of the salary model *)

\* salaries are drawn within PennySpread pence of each band edge
PennySpread == 1
\* and on whole pounds up to TaperSteps above the start of the taper
TaperSteps == 4

BandEdges == {12570, 50270, 100000, 125140}

EdgeSalaries ==
    {R(e * 100 + k, 100) : e \in BandEdges, k \in (-PennySpread)..PennySpread}

TaperSalaries ==
    {RInt(100000 + k) : k \in 1..TaperSteps} \cup {R(2000050 + 100 * k, 20) : k \in 1..TaperSteps}

Salaries ==
    EdgeSalaries \cup TaperSalaries
    \cup {RInt(k) : k \in {-1000, 0, 9000, 30000, 75000, 100540, 112570, 150000, 200000}}

PensionPcts == {RInt(k) : k \in {0, 50, 100, 150, -5}} \cup {NaN}
\* percentages tried on whole-pound salaries only (the pence stay within 1/100)
WholePoundPcts == {RInt(8), R(5, 2)}

HoursChoices == {RInt(k) : k \in {0, 5, 10, 40, 80, 100, -5}} \cup {DefaultHours, NaN}

NoCalc == [pending |-> TRUE]

SalaryIdle ==
    /\ salary = Zero /\ pensionPct = Zero /\ hoursPerWeek = Zero
    /\ calc = NoCalc
    /\ spc = "idle"

SalaryInit ==
    /\ salary \in Salaries
    /\ pensionPct \in PensionPcts \cup (IF salary.d = 1 THEN WholePoundPcts ELSE {})
    /\ hoursPerWeek \in HoursChoices
    /\ calc = NoCalc
    /\ spc = "pending"

\* useMemo(() => calculateNetSalary(adjustedSalary, Number(pensionContribution || 0), hoursPerWeek))
Calculate ==
    /\ spc = "pending"
    /\ calc' = calculateNetSalary(salary, pensionPct, hoursPerWeek)
    /\ spc' = "done"
    /\ UNCHANGED <<salary, pensionPct, hoursPerWeek>>
    /\ UNCHANGED <<mvars, gvars, pvars, lvars, wvars>>

SalaryNext == Calculate

-----------------------------------------------------------------------------
(* Retirement projection engine (retirement page) *)

\* Math.round of a finite number: the nearest integer, ties towards +Infinity
MathRound(x) == IF IsFin(x) THEN RInt((2 * x.n + x.d) \div (2 * x.d)) ELSE x

\* the rate kept from the previous call once it has been computed
MonthlyNet_Cached(nominalReturnPct_, annualFeesPct_) ==
    IF monthlyNet # Zero THEN monthlyNet
    ELSE LET monthlyGross == RDiv(RDiv(nominalReturnPct_, RInt(100)), RInt(12))
             monthlyFees  == RDiv(RDiv(annualFeesPct_, RInt(100)), RInt(12))
         IN  MathMax(RInt(-1), RSub(monthlyGross, monthlyFees))

\* const monthlyNet = Math.max(-1, monthlyGross - monthlyFees)
MonthlyNet(nominalReturnPct_, annualFeesPct_) ==
    LET monthlyGross == RDiv(RDiv(nominalReturnPct_, RInt(100)), RInt(12))
        monthlyFees  == RDiv(RDiv(annualFeesPct_, RInt(100)), RInt(12))
    IN  MathMax(RInt(-1), RSub(monthlyGross, monthlyFees))

\* the contribution taken out of the pot instead of paid in
Grow_Withdraw(idx_, pot_, monthlyNet_, contribution) ==
    IF idx_ > 0
    THEN RSub(RMul(pot_, RAdd(One, monthlyNet_)), contribution)
    ELSE pot_

\* if (i > 0) pot = pot * (1 + monthlyNet) + monthlyContribution
Grow(idx_, pot_, monthlyNet_, contribution) ==
    IF idx_ > 0
    THEN RAdd(RMul(pot_, RAdd(One, monthlyNet_)), contribution)
    ELSE pot_

\* a point only on the year boundaries
Recorded_YearsOnly(idx_, months_) == idx_ % 12 = 0

\* if (i % 12 === 0 || i === months)
Recorded(idx_, months_) == idx_ % 12 = 0 \/ RInt(idx_) = months_

\* the point without the floor at 0
Point_NoFloor(idx_, pot_) ==
    [name |-> ToString(idx_ \div 12) \o "y", pot |-> MathRound(pot_)]

\* { name: `${Math.floor(i / 12)}y`, pot: Math.max(0, Math.round(pot)) }
Point(idx_, pot_) ==
    [name |-> ToString(idx_ \div 12) \o "y", pot |-> MathMax(Zero, MathRound(pot_))]

\* i <= months
ProjLoopCond(idx_, months_) == RLe(RInt(idx_), months_)

-----------------------------------------------------------------------------
(* Inputs of the projection model *)

\* the longest horizon, in months
MaxProjMonths == 25
\* the longest horizon at the rates that make the pot a fraction
MaxFracMonths == 13

StartingPots == {RInt(k) : k \in {0, 1, 3, -2}}
Contributions == {RInt(k) : k \in {0, 1, -1}}

\* <<nominalReturnPct, annualFeesPct>> with a whole monthly factor
WholeRates == {<<RInt(0), RInt(0)>>, <<RInt(7), RInt(7)>>, <<RInt(1200), RInt(0)>>,
               <<RInt(0), RInt(1200)>>, <<RInt(0), RInt(2400)>>}
\* ... with the monthly factors 3/2 and 1/2
FracRates == {<<RInt(600), RInt(0)>>, <<RInt(100), RInt(700)>>}

WholeHorizons == {RInt(k) : k \in -1..MaxProjMonths}
\* yearsToGrow * 12 of ages that are not whole numbers
PartHorizons == {R(2 * k + 1, 2) : k \in 0..MaxProjMonths - 1}

ProjectionIdle ==
    /\ startingPot = Zero /\ monthlyContribution = Zero
    /\ nominalReturnPct = Zero /\ annualFeesPct = Zero /\ monthsToGrow = Zero
    /\ monthlyNet = Zero /\ pot = Zero /\ idx = 0
    /\ data = <<>> /\ recordedAt = <<>>
    /\ ppc = "idle"

ProjectionInit ==
    /\ startingPot \in StartingPots
    /\ monthlyContribution \in Contributions
    /\ \E rt \in WholeRates \cup FracRates :
          /\ nominalReturnPct = rt[1]
          /\ annualFeesPct = rt[2]
          /\ monthsToGrow \in WholeHorizons \cup PartHorizons
          /\ rt \in FracRates => RLe(monthsToGrow, RInt(MaxFracMonths))
    /\ monthlyNet = Zero /\ pot = Zero /\ idx = 0
    /\ data = <<>> /\ recordedAt = <<>>
    /\ ppc = "start"

\* lines 36-40 and the loop initialiser
ProjEnter ==
    /\ ppc = "start"
    /\ monthlyNet' = MonthlyNet(nominalReturnPct, annualFeesPct)
    /\ pot' = startingPot
    /\ data' = <<>>
    /\ recordedAt' = <<>>
    /\ idx' = 0
    /\ ppc' = "loop"
    /\ UNCHANGED <<startingPot, monthlyContribution, nominalReturnPct, annualFeesPct, monthsToGrow>>
    /\ UNCHANGED <<mvars, gvars, svars, lvars, wvars>>

\* one iteration of the for loop; recordedAt is the history of the indices pushed
ProjStep ==
    /\ ppc = "loop"
    /\ ProjLoopCond(idx, monthsToGrow)
    /\ LET grown == Grow(idx, pot, monthlyNet, monthlyContribution)
       IN  /\ pot' = grown
           /\ IF Recorded(idx, monthsToGrow)
              THEN /\ data' = Append(data, Point(idx, grown))
                   /\ recordedAt' = Append(recordedAt, idx)
              ELSE UNCHANGED <<data, recordedAt>>
    /\ idx' = idx + 1
    /\ UNCHANGED <<startingPot, monthlyContribution, nominalReturnPct, annualFeesPct,
                   monthsToGrow, monthlyNet, ppc>>
    /\ UNCHANGED <<mvars, gvars, svars, lvars, wvars>>

\* return data
ProjReturn ==
    /\ ppc = "loop"
    /\ ~ProjLoopCond(idx, monthsToGrow)
    /\ ppc' = "done"
    /\ UNCHANGED <<startingPot, monthlyContribution, nominalReturnPct, annualFeesPct,
                   monthsToGrow, monthlyNet, pot, idx, data, recordedAt>>
    /\ UNCHANGED <<mvars, gvars, svars, lvars, wvars>>

ProjectionNext == ProjEnter \/ ProjStep \/ ProjReturn

-----------------------------------------------------------------------------
(* Goal list of the goals page: addGoal, updateSavedInline, removeGoal *)

\* the most goals added in a run
MaxGoalsAdded == 1

\* the table's own id of the row inserted for the temporary id i
RowId(i) == i + 100

\* !name.trim() || !Number.isFinite(t) || t <= 0 || !deadline
InvalidBasics(f) ==
    f.name = "" \/ ~IsFin(f.target) \/ RLe(f.target, Zero) \/ f.deadline = ""

\* the saved amount checked against 0 only
InvalidSaved_NoUpper(f) ==
    f.type = "goal" /\ (~IsFin(f.saved) \/ RLt(f.saved, Zero))

\* type === 'goal' && (!Number.isFinite(s) || s < 0 || s > t)
InvalidSaved(f) ==
    f.type = "goal" /\ (~IsFin(f.saved) \/ RLt(f.saved, Zero) \/ RGt(f.saved, f.target))

\* type === 'debt' && (r === null || !Number.isFinite(r) || r < 0)
InvalidRate(f) ==
    f.type = "debt" /\ (f.interestRate = Null \/ ~IsFin(f.interestRate)
                        \/ RLt(f.interestRate, Zero))

\* the optimistic row: saved: type === 'goal' ? s : 0, interest_rate: type === 'debt' ? r : null
TempGoal(f, id_) ==
    [id            |-> id_,
     type          |-> f.type,
     target        |-> f.target,
     saved         |-> IF f.type = "goal" THEN f.saved ELSE Zero,
     interest_rate |-> IF f.type = "debt" THEN f.interestRate ELSE Null]

\* prev.filter(g => g.id !== id)
WithoutId(list, id_) == SelectSeq(list, LAMBDA g : g.id # id_)

\* prev.map(g => (g.id === temp.id ? data : g))
ReplaceId(list, id_, row) ==
    [k \in DOMAIN list |-> IF list[k].id = id_ THEN row ELSE list[k]]

\* rollback that puts back the snapshot taken before the delete
Rollback(list, prev_, id_) == prev_

\* prev.map(g => (g.id === id ? { ...g, saved: clamp(value, 0, g.target) } : g))
WithSaved(list, id_, value) ==
    [k \in DOMAIN list |->
        IF list[k].id = id_
        THEN [list[k] EXCEPT !.saved = clamp(value, Zero, list[k].target)]
        ELSE list[k]]

\* a filled-in form; Number('') is 0 and an empty rate is null
Filled(ty, t, sv, ir) ==
    [name |-> "Car", target |-> RInt(t), saved |-> RInt(sv), deadline |-> "2030-01-01",
     type |-> ty, interestRate |-> ir]

\* what the user can have typed
Forms ==
    {Filled("goal", 10, sv, Null) : sv \in {-5, 4, 25}}
    \cup {Filled("goal", t, 0, Null) : t \in {0, -5}}
    \cup {Filled("debt", 10, 25, ir) : ir \in {Null, RInt(-1), RInt(12)}}
    \cup {[Filled("goal", 10, 4, Null) EXCEPT !.name = ""],
          [Filled("goal", 10, 4, Null) EXCEPT !.deadline = ""]}

\* the values typed into "Adjust saved"
SavedInputs == {RInt(k) : k \in {-3, 7, 40}}

\* the runs explored keep at most one insert and one delete awaited at a time
Awaited(op_) == \E q \in inflight : q.op = op_

ItemIds(list) == {list[k].id : k \in DOMAIN list}

GoalListIdle ==
    /\ goals = <<>> /\ inflight = {} /\ nextId = 0
    /\ alertMsg = "" /\ lpc = "idle"

\* rows of the goals table when the page loads
FetchedLists ==
    {<<>>,
     <<[id |-> RowId(0), type |-> "goal", target |-> RInt(10), saved |-> RInt(4),
        interest_rate |-> Null]>>,
     <<[id |-> RowId(0), type |-> "debt", target |-> RInt(10), saved |-> Zero,
        interest_rate |-> RInt(12)]>>}

\* the page after the goals table has been fetched
GoalListInit ==
    /\ goals \in FetchedLists /\ inflight = {} /\ nextId = 1
    /\ alertMsg = "" /\ lpc = "ready"

\* addGoal up to the await, f being the form fields (name, target, saved,
\* deadline, type, interestRate) as they are when Add is clicked:
\* validation, optimistic insert, request sent
Submit(f) ==
    /\ lpc = "ready"
    /\ IF InvalidBasics(f)
       THEN /\ alertMsg' = "Please enter a valid name, positive target/balance, and a deadline."
            /\ UNCHANGED <<goals, inflight, nextId>>
       ELSE IF InvalidSaved(f)
       THEN /\ alertMsg' = "Saved must be between 0 and target."
            /\ UNCHANGED <<goals, inflight, nextId>>
       ELSE IF InvalidRate(f)
       THEN /\ alertMsg' = "Please provide a valid interest rate for debt."
            /\ UNCHANGED <<goals, inflight, nextId>>
       ELSE /\ nextId <= MaxGoalsAdded
            /\ ~Awaited("insert")
            /\ goals' = Append(goals, TempGoal(f, nextId))
            /\ inflight' = inflight \cup {[op |-> "insert", id |-> nextId,
                                           row |-> TempGoal(f, RowId(nextId)),
                                           prev |-> <<>>]}
            /\ nextId' = nextId + 1
            /\ alertMsg' = ""
    /\ UNCHANGED lpc
    /\ UNCHANGED <<mvars, gvars, svars, pvars, wvars>>

\* addGoal after the await, insert succeeded: swap temp for the row
InsertDone(q) ==
    /\ q \in inflight /\ q.op = "insert"
    /\ goals' = ReplaceId(goals, q.id, q.row)
    /\ inflight' = inflight \ {q}
    /\ alertMsg' = ""
    /\ UNCHANGED <<nextId, lpc>>
    /\ UNCHANGED <<mvars, gvars, svars, pvars, wvars>>

\* addGoal after the await, insert failed: the optimistic row is removed
InsertFailed(q) ==
    /\ q \in inflight /\ q.op = "insert"
    /\ goals' = WithoutId(goals, q.id)
    /\ inflight' = inflight \ {q}
    /\ alertMsg' = "Failed to add goal."
    /\ UNCHANGED <<nextId, lpc>>
    /\ UNCHANGED <<mvars, gvars, svars, pvars, wvars>>

\* updateSavedInline(goal.id, Number(e.target.value)): the input is rendered
\* for goal.type === 'goal' only; the debounced write goes to the table
UpdateSavedInline(id_, value) ==
    /\ lpc = "ready"
    /\ \E k \in DOMAIN goals : goals[k].id = id_ /\ goals[k].type = "goal"
    /\ goals' = WithSaved(goals, id_, value)
    /\ alertMsg' = ""
    /\ UNCHANGED <<inflight, nextId, lpc>>
    /\ UNCHANGED <<mvars, gvars, svars, pvars, wvars>>

\* removeGoal up to the await: snapshot, optimistic removal, request sent
RemoveGoal(id_) ==
    /\ lpc = "ready"
    /\ id_ \in ItemIds(goals)
    /\ ~Awaited("delete")
    /\ goals' = WithoutId(goals, id_)
    /\ inflight' = inflight \cup {[op |-> "delete", id |-> id_,
                                   row |-> CHOOSE g \in {goals[k] : k \in DOMAIN goals} : g.id = id_,
                                   prev |-> goals]}
    /\ alertMsg' = ""
    /\ UNCHANGED <<nextId, lpc>>
    /\ UNCHANGED <<mvars, gvars, svars, pvars, wvars>>

\* removeGoal after the await, delete succeeded
DeleteDone(q) ==
    /\ q \in inflight /\ q.op = "delete"
    /\ inflight' = inflight \ {q}
    /\ alertMsg' = ""
    /\ UNCHANGED <<goals, nextId, lpc>>
    /\ UNCHANGED <<mvars, gvars, svars, pvars, wvars>>

\* removeGoal after the await, delete failed: setGoals(prev)
DeleteFailed(q) ==
    /\ q \in inflight /\ q.op = "delete"
    /\ goals' = Rollback(goals, q.prev, q.id)
    /\ inflight' = inflight \ {q}
    /\ alertMsg' = "Failed to remove goal."
    /\ UNCHANGED <<nextId, lpc>>
    /\ UNCHANGED <<mvars, gvars, svars, pvars, wvars>>

AddGoal == lpc = "ready" /\ \E f \in Forms : Submit(f)
InsertSettles == \E q \in inflight : InsertDone(q) \/ InsertFailed(q)
DeleteSettles == \E q \in inflight : DeleteDone(q) \/ DeleteFailed(q)
AdjustSaved == \E id_ \in ItemIds(goals), v \in SavedInputs : UpdateSavedInline(id_, v)
ClickRemove == \E id_ \in ItemIds(goals) : RemoveGoal(id_)

GoalListNext ==
    AddGoal \/ InsertSettles \/ AdjustSaved \/ ClickRemove \/ DeleteSettles

-----------------------------------------------------------------------------
(* A page session: the engines called again and again, one call at a time *)

\* JavaScript runs each call to completion before the next one starts
NoCallRunning ==
    /\ pc \in {"idle", "done"}
    /\ ppc \in {"idle", "done"}
    /\ spc \in {"idle", "done"}
    /\ gpc \in {"idle", "rendered"}

\* <<loan, annualRate, years, monthlyOverpay>> of the calls of a session
SessionMortgageArgs ==
    {<<RInt(60), Zero, One, Zero>>, <<RInt(120), Zero, One, RInt(7)>>,
     <<RInt(60), RInt(1200), R(2, 12), Zero>>, <<RInt(120), RInt(6), R(1, 12), RInt(-200)>>,
     <<RInt(60), RInt(1200), R(13, 12), RInt(-70)>>}

\* <<startingPot, monthlyContribution, nominalReturnPct, annualFeesPct, months>>
SessionProjectionArgs ==
    {<<RInt(3), One, RInt(1200), Zero, RInt(13)>>, <<RInt(3), One, Zero, Zero, RInt(13)>>,
     <<One, Zero, RInt(600), Zero, RInt(12)>>, <<RInt(3), RInt(-1), Zero, RInt(2400), R(25, 2)>>,
     <<RInt(-2), One, RInt(100), RInt(700), Zero>>}

\* <<salary, pensionPct, hoursPerWeek>>
SessionSalaryArgs ==
    {<<RInt(30000), RInt(8), DefaultHours>>, <<RInt(30000), Zero, Zero>>,
     <<R(12513999, 100), Zero, RInt(100)>>, <<RInt(150000), RInt(50), NaN>>}

\* <<goal, now, tz>>
SessionCardArgs ==
    {<<[type |-> "goal", target |-> RInt(100), saved |-> RInt(4),
        deadline |-> DateString(2024, 3, 1), interest_rate |-> Null],
       [y |-> 2024, m |-> 0, d |-> 1], tz_>> : tz_ \in {-5, 0}}
    \cup
    {<<[type |-> "debt", target |-> RInt(10), saved |-> Zero,
        deadline |-> DateString(2024, 3, 15), interest_rate |-> RInt(1200)],
       [y |-> 2024, m |-> 0, d |-> 15], 1>>}

\* buildAmortization(...) is called: new arguments, whatever the last call left
CallBuildAmortization ==
    /\ NoCallRunning
    /\ \E a \in SessionMortgageArgs :
          /\ loan' = a[1] /\ annualRate' = a[2] /\ years' = a[3] /\ monthlyOverpay' = a[4]
    /\ pc' = "start"
    /\ UNCHANGED <<r, n, basePay, pay, bal, rows, month, principal, interest, result>>
    /\ UNCHANGED <<gvars, svars, pvars, lvars, wvars>>

\* generateProjectionData(...) is called
CallGenerateProjectionData ==
    /\ NoCallRunning
    /\ \E a \in SessionProjectionArgs :
          /\ startingPot' = a[1] /\ monthlyContribution' = a[2]
          /\ nominalReturnPct' = a[3] /\ annualFeesPct' = a[4] /\ monthsToGrow' = a[5]
    /\ ppc' = "start"
    /\ UNCHANGED <<monthlyNet, pot, data, idx, recordedAt>>
    /\ UNCHANGED <<mvars, gvars, svars, lvars, wvars>>

\* calculateNetSalary(...) is called
CallCalculateNetSalary ==
    /\ NoCallRunning
    /\ \E a \in SessionSalaryArgs :
          /\ salary' = a[1] /\ pensionPct' = a[2] /\ hoursPerWeek' = a[3]
    /\ spc' = "pending"
    /\ UNCHANGED calc
    /\ UNCHANGED <<mvars, gvars, pvars, lvars, wvars>>

\* a goal card is rendered again
CallGoalCard ==
    /\ NoCallRunning
    /\ \E a \in SessionCardArgs :
          /\ goal' = a[1] /\ now' = a[2] /\ tz' = a[3]
    /\ gpc' = "pending"
    /\ UNCHANGED card
    /\ UNCHANGED <<mvars, svars, pvars, lvars, wvars>>

SessionNext ==
    \/ CallBuildAmortization \/ Enter \/ Month \/ Return
    \/ CallGenerateProjectionData \/ ProjEnter \/ ProjStep \/ ProjReturn
    \/ CallCalculateNetSalary \/ Calculate
    \/ CallGoalCard \/ RenderCard

-----------------------------------------------------------------------------
(* Specifications *)

InitMortgage == MortgageInit /\ GoalIdle /\ SalaryIdle /\ ProjectionIdle /\ GoalListIdle /\ WindowIdle

SpecMortgage == InitMortgage /\ [][MortgageNext]_vars

InitPayoff == GoalInit /\ MortgageIdle /\ SalaryIdle /\ ProjectionIdle /\ GoalListIdle /\ WindowIdle

SpecPayoff == InitPayoff /\ [][PayoffNext]_vars

InitSalary == SalaryInit /\ MortgageIdle /\ GoalIdle /\ ProjectionIdle /\ GoalListIdle /\ WindowIdle

SpecSalary == InitSalary /\ [][SalaryNext]_vars

InitProjection == ProjectionInit /\ MortgageIdle /\ GoalIdle /\ SalaryIdle /\ GoalListIdle /\ WindowIdle

SpecProjection == InitProjection /\ [][ProjectionNext]_vars

InitSession == MortgageIdle /\ GoalIdle /\ SalaryIdle /\ ProjectionIdle /\ GoalListIdle /\ WindowIdle

SpecSession == InitSession /\ [][SessionNext]_vars

InitGoalList == GoalListInit /\ MortgageIdle /\ GoalIdle /\ SalaryIdle /\ ProjectionIdle /\ WindowIdle

SpecGoalList == InitGoalList /\ [][GoalListNext]_vars

InitWindow ==
    WindowInit /\ MortgageIdle /\ SalaryIdle /\ ProjectionIdle /\ GoalListIdle

SpecWindow == InitWindow /\ [][WindowNext]_vars

-----------------------------------------------------------------------------
(* Claims about the mortgage engine *)

\* loan >= 0, rate >= 0, years > 0
ValidTerms == RGe(loan, Zero) /\ RGe(annualRate, Zero) /\ RGt(years, Zero)

\* C1: for loan >= 0, rate >= 0, years > 0 and overpayment >= 0, in every
\* iteration of the monthly loop the principal component applied is at most
\* the balance held before that month, and the balance after it is >= 0.
C1_BalanceNeverNegative ==
    [][(ValidTerms /\ RGe(monthlyOverpay, Zero) /\ month' = month + 1)
          => (RLe(principal', bal) /\ RGe(bal', Zero))]_vars

\* a final month whose payment would overshoot was capped to the balance
C1_Witness ==
    /\ ValidTerms /\ RGe(monthlyOverpay, Zero)
    /\ month > 1
    /\ bal = Zero
    /\ RLt(principal, RSub(pay, interest))

\* C2: for principal > 0, rate >= 0, termYears > 0 and no overpayment, the
\* principal paid summed over the returned rows equals the principal to
\* within 5 pence, and the loop ends with balance 0.
C2_Conservation ==
    (pc = "done" /\ ValidTerms /\ RGt(loan, Zero) /\ monthlyOverpay = Zero)
        => /\ bal = Zero
           /\ RLe(RSub(totalPrincipal(result), loan), R(5, 100))
           /\ RLe(RSub(loan, totalPrincipal(result)), R(5, 100))

\* a schedule of more than one yearly row at a positive rate was returned
C2_Witness ==
    /\ pc = "done" /\ ValidTerms /\ RGt(loan, Zero) /\ monthlyOverpay = Zero
    /\ RGt(annualRate, Zero)
    /\ Len(result) >= 2

\* number of rows the n + 600 guard allows: ceil((n + 600) / 12)
RowBound == CeilInt(RDiv(RAdd(n, RInt(SafetyMonths)), RInt(MonthsPerYear)))

\* C3 as stated: the loop executes at most n + 600 months and the schedule
\* never has more than ceil((n + 600) / 12) rows (stated here for the inputs
\* with years > 0).
C3_Original ==
    (pc # "start" /\ RGt(years, Zero))
        => /\ RLe(RInt(month), RAdd(n, RInt(SafetyMonths)))
           /\ Len(rows) <= RowBound

\* C3 (amended): buildAmortization terminates for every input: the loop
\* executes at most max(0, ceil(n + 600)) months, no month is executed once
\* the balance is 0 or after a month in which payment <= interest with
\* rate > 0, and the schedule has at most max(0, ceil((n + 600) / 12)) rows.
C3_Termination ==
    /\ [](pc # "start"
            => /\ month <= IF CeilInt(RAdd(n, RInt(SafetyMonths))) > 0
                           THEN CeilInt(RAdd(n, RInt(SafetyMonths))) ELSE 0
               /\ Len(rows) <= IF RowBound > 0 THEN RowBound ELSE 0
               /\ Len(result) <= IF RowBound > 0 THEN RowBound ELSE 0)
    /\ [][month' = month + 1
            => /\ RGt(bal, Zero)
               /\ ~(month > 0 /\ RLe(pay, interest) /\ RGt(r, Zero))]_vars

\* the n + 600 guard ended a loop whose balance never reached 0
C3_Witness ==
    /\ pc = "done"
    /\ RGt(bal, Zero)
    /\ RGe(RInt(month), RAdd(n, RInt(SafetyMonths)))
    /\ month > SafetyMonths

\* the larger overpayments a finished run is compared with
LargerOverpays == {o \in Overpays : RGt(o, monthlyOverpay)}

\* C4 as stated: for fixed principal, rate and term, a larger overpayment
\* yields strictly less total interest and strictly fewer months (stated here
\* for principal > 0 and rate > 0 only, where interest accrues at all).
C4_Original ==
    (pc = "done" /\ ValidTerms /\ RGe(monthlyOverpay, Zero)
        /\ RGt(loan, Zero) /\ RGt(annualRate, Zero))
        => \A o \in LargerOverpays :
              LET f == FinalLoopState(loan, annualRate, years, o)
              IN  /\ RLt(totalInterest(RoundRows(f.rows)), totalInterest(result))
                  /\ f.month < month

\* C4 (amended): for valid principal, rate and term (principal >= 0,
\* rate >= 0, years > 0) and overpayments 0 <= o1 < o2, buildAmortization
\* with o2 yields no more total interest and no more months than with o1.
C4_OverpaymentMonotone ==
    (pc = "done" /\ ValidTerms /\ RGe(monthlyOverpay, Zero))
        => \A o \in LargerOverpays :
              LET f == FinalLoopState(loan, annualRate, years, o)
              IN  /\ RLe(totalInterest(buildAmortization(loan, annualRate, years, o)),
                         totalInterest(result))
                  /\ f.month <= month

\* a larger overpayment that did shorten the loan and reduce the interest
C4_Witness ==
    /\ pc = "done" /\ ValidTerms /\ RGe(monthlyOverpay, Zero)
    /\ RGt(annualRate, Zero) /\ month > 2
    /\ \E o \in LargerOverpays :
          LET f == FinalLoopState(loan, annualRate, years, o)
          IN  /\ RLt(totalInterest(RoundRows(f.rows)), totalInterest(result))
              /\ f.month < month /\ f.month > 1

\* C5: monthlyPayment returns exactly principal / (years * 12) when
\* annualRate = 0 and years > 0, and 0 whenever years * 12 <= 0; the result
\* is never the outcome of a division by zero.
C5_MonthlyPayment ==
    pc # "start"
        => /\ (annualRate = Zero /\ RGt(years, Zero))
                => basePay = RDiv(loan, RMul(years, RInt(12)))
           /\ RLe(RMul(years, RInt(12)), Zero) => basePay = Zero
           /\ IsFin(basePay)

\* a zero-rate loan over a positive term got a positive payment
C5_Witness ==
    /\ pc # "start"
    /\ annualRate = Zero /\ RGt(years, Zero) /\ RGt(loan, Zero)
    /\ RGt(basePay, Zero)
    /\ RMul(basePay, n) = loan

-----------------------------------------------------------------------------
(* Claims about the payoff engine *)

\* the deadline string names a calendar day
HasDate == goal.deadline.text = "date"

\* day number used to order calendar dates (y, m 0-based, d)
DayKey(y, m0, d) == (y * 12 + m0) * 32 + d

DeadlineKey == DayKey(goal.deadline.y, goal.deadline.mm - 1, goal.deadline.d)
NowKey == DayKey(now.y, now.m, now.d)

\* C6: monthsBetween(reference, deadline) is >= 0 for every pair of dates;
\* a deadline earlier than the reference date, or an unparseable deadline,
\* yields 0.
C6_MonthsNonNegative ==
    gpc = "rendered"
        => /\ card.monthsLeft >= 0
           /\ ~HasDate => card.monthsLeft = 0
           /\ (HasDate /\ DeadlineKey < NowKey) => card.monthsLeft = 0

\* a deadline in an earlier calendar month was rendered
C6_Witness ==
    /\ gpc = "rendered" /\ HasDate
    /\ goal.deadline.y * 12 + goal.deadline.mm - 1 < now.y * 12 + now.m
    /\ card.monthsLeft = 0

\* C7: for a deadline not before the reference date, monthsBetween is
\* (deadlineYear - refYear) * 12 + (deadlineMonth - refMonth), minus 1 exactly
\* when the deadline's day-of-month is smaller than the reference's.
C7_CompletedMonths ==
    (gpc = "rendered" /\ HasDate /\ DeadlineKey >= NowKey)
        => card.monthsLeft =
              (goal.deadline.y - now.y) * 12 + (goal.deadline.mm - 1 - now.m)
                 - (IF goal.deadline.d < now.d THEN 1 ELSE 0)

\* C7 holds where local time is not behind UTC
C7_EastOfGreenwich == tz >= 0 => C7_CompletedMonths

\* C8: for a savings goal the required monthly amount is
\* max(0, target - saved) / monthsRemaining when monthsRemaining > 0 and 0
\* when monthsRemaining = 0; it is never negative and never infinite.
C8_RequiredMonthly ==
    (gpc = "rendered" /\ goal.type = "goal")
        => /\ card.monthsLeft > 0
                => RMul(card.monthlyNeedSavings, RInt(card.monthsLeft))
                      = MathMax(Zero, RSub(goal.target, goal.saved))
           /\ card.monthsLeft = 0 => card.monthlyNeedSavings = Zero
           /\ IsFin(card.monthlyNeedSavings)
           /\ RGe(card.monthlyNeedSavings, Zero)

\* a goal with money still to save and a past deadline shows 0
C8_Witness ==
    /\ gpc = "rendered" /\ goal.type = "goal"
    /\ HasDate /\ DeadlineKey < NowKey
    /\ RGt(goal.target, goal.saved)
    /\ card.monthlyNeedSavings = Zero

\* the payment the card asks debtMonthlyPayment for
RequiredMonthly ==
    debtMonthlyPayment(goal.target, OrZero(goal.interest_rate), card.monthsLeft)

\* C9 as stated: for every debt and every monthsRemaining >= 0 (0 included)
\* totalCost = requiredMonthly * monthsRemaining and
\* totalInterest = totalCost - balance (stated here for the debts whose
\* deadline is a date).
C9_Original ==
    (gpc = "rendered" /\ goal.type = "debt" /\ HasDate)
        => /\ card.totalCostDebt = RMul(RequiredMonthly, RInt(card.monthsLeft))
           /\ card.totalInterestDebt = RSub(card.totalCostDebt, goal.target)

\* C9 (amended): for every debt with monthsRemaining > 0,
\* totalCost = requiredMonthly * monthsRemaining and
\* totalInterest = totalCost - balance; with monthsRemaining = 0 the displayed
\* totalCost is the balance itself and totalInterest is 0.
C9_TotalCost ==
    (gpc = "rendered" /\ goal.type = "debt")
        => /\ card.monthlyPaymentDebt = RequiredMonthly
           /\ card.monthsLeft > 0
                => /\ card.totalCostDebt = RMul(RequiredMonthly, RInt(card.monthsLeft))
                   /\ card.totalInterestDebt = RSub(card.totalCostDebt, goal.target)
           /\ card.monthsLeft = 0
                => /\ card.totalCostDebt = goal.target
                   /\ card.totalInterestDebt = Zero

\* a debt with a balance was rendered with no month left
C9_Witness ==
    /\ gpc = "rendered" /\ goal.type = "debt"
    /\ card.monthsLeft = 0
    /\ RGt(goal.target, Zero)
    /\ card.totalCostDebt = goal.target

\* C10: for a debt with balance > 0, APR > 0 and monthsRemaining > 0 the
\* payments sum to strictly more than the balance (totalInterest > 0); with
\* APR = 0 the payment is balance / monthsRemaining and totalInterest = 0.
C10_InterestPositive ==
    (gpc = "rendered" /\ goal.type = "debt" /\ card.monthsLeft > 0)
        => /\ (RGt(goal.target, Zero) /\ RGt(OrZero(goal.interest_rate), Zero))
                => /\ RGt(RMul(card.monthlyPaymentDebt, RInt(card.monthsLeft)),
                          goal.target)
                   /\ RGt(card.totalInterestDebt, Zero)
           /\ OrZero(goal.interest_rate) = Zero
                => /\ card.monthlyPaymentDebt
                        = RDiv(goal.target, RInt(card.monthsLeft))
                   /\ card.totalInterestDebt = Zero

\* an interest-bearing debt spread over several months was rendered
C10_Witness ==
    /\ gpc = "rendered" /\ goal.type = "debt"
    /\ card.monthsLeft >= 12
    /\ RGt(goal.target, Zero)
    /\ goal.interest_rate # Null /\ RGt(OrZero(goal.interest_rate), Zero)
    /\ RGt(card.totalInterestDebt, Zero)

-----------------------------------------------------------------------------
(* Claims about the net salary engine *)

SalaryDone == spc = "done"

Pounds(k) == RInt(k)
Pence(k) == R(k, 100)

\* C11: for a salaryAfterPension S with 12,570 < S <= 50,270 the income tax is
\* 20% of (S - 12,570), the NI is 12% of (S - 12,570), netAnnual is
\* S - incomeTax - NI and netMonthly is netAnnual / 12; a gross salary of
\* 30,000 with an 8% pension gives S = 27,600, tax 3,006, NI 1,803.60 and
\* netAnnual 22,790.40.
C11_BasicRateBand ==
    SalaryDone =>
        LET S == calc.salaryAfterPension
        IN  /\ (RGt(S, Pounds(12570)) /\ RLe(S, Pounds(50270))) =>
                  /\ calc.incomeTax = RMul(R(1, 5), RSub(S, Pounds(12570)))
                  /\ calc.nationalInsurance = RMul(R(3, 25), RSub(S, Pounds(12570)))
                  /\ RAdd(calc.netAnnual, RAdd(calc.incomeTax, calc.nationalInsurance)) = S
                  /\ RMul(calc.netMonthly, RInt(12)) = calc.netAnnual
            /\ (salary = Pounds(30000) /\ pensionPct = RInt(8)) =>
                  /\ S = Pounds(27600)
                  /\ calc.incomeTax = Pounds(3006)
                  /\ calc.nationalInsurance = Pence(180360)
                  /\ calc.netAnnual = Pence(2279040)

C11_Witness ==
    /\ SalaryDone
    /\ salary = Pounds(30000) /\ pensionPct = RInt(8)
    /\ calc.salaryAfterPension = Pounds(27600)
    /\ calc.netMonthly = Pence(189920)

\* floor((S - 100,000) / 2) in integer arithmetic
WholePairsAbove100k(S) == (S.n - 100000 * S.d) \div (2 * S.d)

\* C12: the tapered allowance always lies in [0, 12,570]; it is 12,570 for
\* S <= 100,000, it is reduced by 1 for every (whole) 2 of S above 100,000,
\* and it is exactly 0 for S >= 125,140.
C12_TaperedAllowance ==
    SalaryDone =>
        LET S == calc.salaryAfterPension
            A == calc.taperedAllowance
        IN  /\ RGe(A, Zero) /\ RLe(A, Pounds(12570))
            /\ RLe(S, Pounds(100000)) => A = Pounds(12570)
            /\ RGe(S, Pounds(125140)) => A = Zero
            /\ (RGt(S, Pounds(100000)) /\ RLt(S, Pounds(125140))) =>
                  A = Pounds(12570 - WholePairsAbove100k(S))

C12_Witness ==
    /\ SalaryDone
    /\ calc.salaryAfterPension = Pounds(100003)
    /\ calc.taperedAllowance = Pounds(12569)

\* the income tax calculateNetSalary computes for a salaryAfterPension S
TaxAt(S) == calculateNetSalary(S, Zero, DefaultHours).incomeTax

OnePenny == Pence(1)

\* |a - b| <= c
Within(a, b, c) == RLe(RSub(a, b), c) /\ RLe(RSub(b, a), c)

\* C13 as stated: at each of the edges 50,270 and 125,140 the income tax one
\* penny below and one penny above differs from the tax at the edge by no
\* more than that penny.
C13_Original ==
    (SalaryDone /\ calc.salaryAfterPension \in {Pounds(50270), Pounds(125140)}) =>
        /\ Within(TaxAt(RSub(calc.salaryAfterPension, OnePenny)), calc.incomeTax, OnePenny)
        /\ Within(TaxAt(RAdd(calc.salaryAfterPension, OnePenny)), calc.incomeTax, OnePenny)

\* C13: at S = 50,270 the income tax is 20% of (50,270 - 12,570) and the tax
\* one penny below or above differs from it by no more than a penny; at
\* S = 125,140 the tax one penny above differs by no more than a penny, but
\* the tax one penny below is lower by 0.204: the last pound of allowance is
\* withdrawn in one step at 125,140.
C13_EdgeContinuity ==
    SalaryDone =>
        LET S == calc.salaryAfterPension
        IN  /\ S = Pounds(50270) =>
                  /\ calc.incomeTax = RMul(R(1, 5), Pounds(50270 - 12570))
                  /\ Within(TaxAt(RSub(S, OnePenny)), calc.incomeTax, OnePenny)
                  /\ Within(TaxAt(RAdd(S, OnePenny)), calc.incomeTax, OnePenny)
            /\ S = Pounds(125140) =>
                  /\ Within(TaxAt(RAdd(S, OnePenny)), calc.incomeTax, OnePenny)
                  /\ RSub(calc.incomeTax, TaxAt(RSub(S, OnePenny))) = R(204, 1000)
            /\ S = RSub(Pounds(125140), OnePenny) => calc.taperedAllowance = One

C13_Witness ==
    /\ SalaryDone
    /\ calc.salaryAfterPension = Pounds(125140)
    /\ calc.incomeTax = Pounds(40002)
    /\ TaxAt(Pence(12513999)) = R(40001796, 1000)

\* C14: for S >= 0 the amounts taxed at 20%, 40% and 45% are non-negative,
\* non-overlapping portions of the salary whose sum is
\* taxableIncome = max(0, S - taperedAllowance): the 20% portion lies between
\* the allowance and 50,270, the 40% portion between 50,270 and 125,140, the
\* 45% portion above 125,140.
C14_BandPortions ==
    (SalaryDone /\ RGe(calc.salaryAfterPension, Zero)) =>
        LET S == calc.salaryAfterPension
            A == calc.taperedAllowance
            a == calc.amounts
        IN  /\ RGe(a.at20, Zero) /\ RGe(a.at40, Zero) /\ RGe(a.at45, Zero)
            /\ RAdd(RAdd(a.at20, a.at40), a.at45) = calc.taxableIncome
            /\ calc.taxableIncome = MathMax(Zero, RSub(S, A))
            /\ a.at20 = MathMax(Zero, RSub(MathMin(S, Pounds(50270)), A))
            /\ a.at40 = MathMax(Zero, RSub(MathMin(S, Pounds(125140)), Pounds(50270)))
            /\ a.at45 = MathMax(Zero, RSub(S, Pounds(125140)))
            /\ calc.incomeTax =
                 RAdd(RAdd(RMul(R(1, 5), a.at20), RMul(R(2, 5), a.at40)),
                      RMul(R(9, 20), a.at45))

C14_Witness ==
    /\ SalaryDone
    /\ calc.salaryAfterPension = Pounds(150000)
    /\ calc.amounts = [at20 |-> Pounds(50270), at40 |-> Pounds(74870), at45 |-> Pounds(24860)]

\* C15: the NI is 0 for S <= 12,570 and 12% of (S - 12,570) for every S above
\* it, with no upper threshold.
C15_NationalInsurance ==
    SalaryDone =>
        LET S == calc.salaryAfterPension
        IN  calc.nationalInsurance =
                IF RLe(S, Pounds(12570)) THEN Zero
                ELSE RMul(R(3, 25), RSub(S, Pounds(12570)))

C15_Witness ==
    /\ SalaryDone
    /\ calc.salaryAfterPension = Pounds(200000)
    /\ calc.nationalInsurance = Pence(2249160)

\* C16: netAnnual = max(0, S - incomeTax - NI), and netAnnual, netMonthly,
\* netWeekly, netDaily and netHourly are >= 0 for every salary and pension
\* percentage.
C16_NetNonNegative ==
    SalaryDone =>
        LET rest == RSub(RSub(calc.salaryAfterPension, calc.incomeTax), calc.nationalInsurance)
        IN  /\ calc.netAnnual = (IF RLt(rest, Zero) THEN Zero ELSE rest)
            /\ RGe(calc.netAnnual, Zero)
            /\ RGe(calc.netMonthly, Zero)
            /\ RGe(calc.netWeekly, Zero)
            /\ RGe(calc.netDaily, Zero)
            /\ RGe(calc.netHourly, Zero)

C16_Witness ==
    /\ SalaryDone
    /\ salary = Pounds(200000) /\ pensionPct = RInt(150)
    /\ hoursPerWeek = RInt(-5)
    /\ calc.netAnnual = Zero /\ calc.netHourly = Zero

\* the periods derived from netAnnual without the hours
PeriodFigures ==
    /\ RMul(calc.netMonthly, RInt(12)) = calc.netAnnual
    /\ RMul(calc.netWeekly, RInt(52)) = calc.netAnnual
    /\ RMul(calc.netDaily, RInt(5)) = calc.netWeekly

\* clamp(h, 10, 80) written out
Clamped10To80(h) ==
    IF RLt(h, RInt(10)) THEN RInt(10) ELSE IF RGt(h, RInt(80)) THEN RInt(80) ELSE h

\* C17 as stated: for every hoursPerWeek, 0 included,
\* netHourly = netWeekly / clamp(hoursPerWeek, 10, 80).
C17_Original ==
    (SalaryDone /\ ~IsNaN(hoursPerWeek)) =>
        /\ PeriodFigures
        /\ calc.netHourly = RDiv(calc.netWeekly, Clamped10To80(hoursPerWeek))

\* C17: netMonthly = netAnnual/12, netWeekly = netAnnual/52,
\* netDaily = netWeekly/5; netHourly = netWeekly / clamp(hoursPerWeek, 10, 80)
\* for every hoursPerWeek other than 0 and NaN (values outside 10..80
\* included), and netHourly = netWeekly / 37.5 when hoursPerWeek is 0 or NaN.
C17_PeriodFigures ==
    SalaryDone =>
        /\ PeriodFigures
        /\ calc.netHourly =
              IF hoursPerWeek = Zero \/ IsNaN(hoursPerWeek)
              THEN RDiv(calc.netWeekly, R(75, 2))
              ELSE RDiv(calc.netWeekly, Clamped10To80(hoursPerWeek))

C17_Witness ==
    /\ SalaryDone
    /\ hoursPerWeek = Zero
    /\ calc.netAnnual = Pounds(9000)
    /\ calc.netHourly = R(9000 * 2, 52 * 75)

\* C18: the band label depends only on salaryAfterPension: 'Very High Earner'
\* exactly when S > 125,140, 'Higher Rate Payer' exactly when
\* 50,270 < S <= 125,140, 'Basic Rate Payer' otherwise; and it agrees with
\* the arm that computed the income tax.
C18_BandLabel ==
    SalaryDone =>
        LET S == calc.salaryAfterPension
        IN  /\ calc.bandLabel = "Very High Earner" <=> RGt(S, Pounds(125140))
            /\ calc.bandLabel = "Higher Rate Payer" <=>
                    (RGt(S, Pounds(50270)) /\ RLe(S, Pounds(125140)))
            /\ calc.bandLabel = "Basic Rate Payer" <=> RLe(S, Pounds(50270))
            /\ calc.bandLabel = "Very High Earner" <=> calc.branch = "additional"
            /\ calc.bandLabel = "Higher Rate Payer" <=> calc.branch = "higher"
            /\ calc.bandLabel = "Basic Rate Payer" <=> calc.branch = "basic"

C18_Witness ==
    /\ SalaryDone
    /\ salary = Pounds(100540) /\ pensionPct = RInt(50)
    /\ calc.salaryAfterPension = Pounds(50270)
    /\ calc.bandLabel = "Basic Rate Payer"
    /\ calc.branch = "basic"

-----------------------------------------------------------------------------
(* Claims about the retirement projection engine *)

ProjDone == ppc = "done"

WholeMonths == monthsToGrow.d = 1
\* floor(months) for months >= 0
LastIndex == monthsToGrow.n \div monthsToGrow.d

\* max(-1, nominal/100/12 - fees/100/12)
NetRate ==
    LET q == RDiv(RSub(nominalReturnPct, annualFeesPct), RInt(1200))
    IN  IF RLt(q, RInt(-1)) THEN RInt(-1) ELSE q

\* the pot after k monthly steps pot = pot * (1 + rate) + contribution
RECURSIVE PotAfter(_)
PotAfter(k) ==
    IF k = 0 THEN startingPot
    ELSE RAdd(RMul(PotAfter(k - 1), RAdd(One, NetRate)), monthlyContribution)

\* the recorded value of a pot: the nearest whole unit, not below 0
Shown(x) ==
    LET h == RAdd(x, R(1, 2))
        z == h.n \div h.d
    IN  IF z < 0 THEN Zero ELSE RInt(z)

Increasing(seq) == \A k \in 1..(Len(seq) - 1) : seq[k] < seq[k + 1]

\* each recorded point is the starting pot after as many steps as its index
PointsReflectSteps ==
    /\ Len(data) = Len(recordedAt)
    /\ \A k \in 1..Len(data) : data[k].pot = Shown(PotAfter(recordedAt[k]))

C20_PotNonNegative ==
    ppc \in {"loop", "done"} =>
        /\ \A k \in 1..Len(data) : RGe(data[k].pot, Zero)
        /\ monthlyNet = NetRate
        /\ RGe(RAdd(One, monthlyNet), Zero)

C20_Witness ==
    /\ ProjDone
    /\ annualFeesPct = RInt(2400) /\ monthlyNet = RInt(-1)
    /\ startingPot = RInt(3) /\ monthlyContribution = RInt(-1)
    /\ monthsToGrow = RInt(13)
    /\ RLt(pot, Zero)
    /\ data = <<[name |-> "0y", pot |-> RInt(3)], [name |-> "1y", pot |-> Zero],
                [name |-> "1y", pot |-> Zero]>>

\* startingPot >= 0, monthly contribution >= 0 and net monthly rate >= 0
GrowthPhase ==
    /\ RGe(startingPot, Zero)
    /\ RGe(monthlyContribution, Zero)
    /\ RGe(NetRate, Zero)

\* C21: in the growth phase (startingPot >= 0, contribution >= 0, net monthly
\* rate >= 0) the recorded pot values never decrease from one point to the
\* next, at every moment of the loop and in the returned data.
C21_MonotoneGrowth ==
    (ppc \in {"loop", "done"} /\ GrowthPhase) =>
        \A k \in 1..(Len(data) - 1) : RLe(data[k].pot, data[k + 1].pot)

C21_Witness ==
    /\ ProjDone /\ GrowthPhase
    /\ nominalReturnPct = RInt(600) /\ monthlyContribution = One
    /\ startingPot = RInt(3)
    /\ Len(data) = 3
    /\ RLt(data[1].pot, data[2].pot) /\ RLt(data[2].pot, data[3].pot)

-----------------------------------------------------------------------------
(* Claims about the engines called repeatedly *)

\* the points generateProjectionData returns for the current arguments, up to
\* index j, computed from the arguments alone
RECURSIVE PointsUpTo(_)
PointsUpTo(j) ==
    IF j < 0 THEN <<>>
    ELSE IF j % 12 = 0 \/ RInt(j) = monthsToGrow
         THEN Append(PointsUpTo(j - 1),
                     [name |-> ToString(j \div 12) \o "y", pot |-> Shown(PotAfter(j))])
         ELSE PointsUpTo(j - 1)

ExpectedData == IF RLt(monthsToGrow, Zero) THEN <<>> ELSE PointsUpTo(LastIndex)

-----------------------------------------------------------------------------
(* Further claims about the mortgage engine *)

\* ceil(m / 12) for a month m >= 1
YearOfMonth(m) == (m + 11) \div 12

PrincipalOfRow(rows_, y) == IF y \in DOMAIN rows_ THEN rows_[y].Principal ELSE Zero
InterestOfRow(rows_, y) == IF y \in DOMAIN rows_ THEN rows_[y].Interest ELSE Zero

\* rows 1..k are numbered 1..k and k is the year of the last month executed
RowsNumbered ==
    /\ pc \in {"loop", "break", "done"} =>
          /\ Len(rows) = YearOfMonth(month)
          /\ \A j \in DOMAIN rows : rows[j].year = j
    /\ pc = "done" =>
          /\ Len(result) = Len(rows)
          /\ \A j \in DOMAIN result : result[j].year = j

\* the month executed by a step is the next one and its figures go to its year
MonthIntoItsYear ==
    Month =>
        LET y == YearOfMonth(month')
        IN  /\ month' = month + 1
            /\ rows'[y].year = y
            /\ rows'[y].Principal = RAdd(PrincipalOfRow(rows, y), principal')
            /\ rows'[y].Interest = RAdd(InterestOfRow(rows, y), interest')
            /\ \A j \in DOMAIN rows : j # y => rows'[j] = rows[j]

\* C23: the principal and interest of month m (1-based) are accumulated into
\* the row with year = ceil(m/12); the rows, and the returned rows, are
\* numbered 1, 2, ..., k with no gap and no duplicate, k being the year of the
\* last month executed, so that only the last row can cover fewer than 12
\* months.
C23_RowsByYear == [](RowsNumbered) /\ [][MonthIntoItsYear]_vars

C23_Witness ==
    /\ pc = "done"
    /\ month = 13
    /\ Len(result) = 2
    /\ result[1].year = 1 /\ result[2].year = 2
    /\ RGt(rows[2].Interest, Zero)

-----------------------------------------------------------------------------
(* Claims about the goal list *)

\* 0 <= saved <= target for a savings goal, saved = 0 for a debt
ItemInRange(g) ==
    IF g.type = "goal"
    THEN RGe(g.saved, Zero) /\ RLe(g.saved, g.target)
    ELSE g.saved = Zero

ListInRange == \A k \in DOMAIN goals : ItemInRange(goals[k])

SavedOutside(f) == RLt(f.saved, Zero) \/ RGt(f.saved, f.target)

\* C24 as stated: every addGoal whose saved field is outside [0, target] or
\* whose target is <= 0 leaves the list unchanged.
C24_Original ==
    [][\A f \in Forms :
          (Submit(f) /\ (SavedOutside(f) \/ RLe(f.target, Zero))) => goals' = goals]_vars

\* C24: after any sequence of addGoal, updateSavedInline and removeGoal (with
\* their requests succeeding or failing) every savings goal of the list has
\* 0 <= saved <= target and every debt has saved = 0; an addGoal with
\* target <= 0, or of a savings goal with saved outside [0, target], is
\* rejected and leaves the list unchanged, while an addGoal of a debt ignores
\* the saved field and stores saved = 0.
C24_ListInRange ==
    /\ [](ListInRange)
    /\ [][\A f \in Forms :
            (Submit(f) /\ (RLe(f.target, Zero) \/ (f.type = "goal" /\ SavedOutside(f))))
                => goals' = goals]_vars

C24_Witness ==
    /\ Len(goals) = 2
    /\ goals[1].type = "goal" /\ goals[1].saved = goals[1].target
    /\ goals[2].type = "debt" /\ goals[2].saved = Zero /\ goals[2].id = RowId(1)
    /\ alertMsg = "Saved must be between 0 and target."

Items(list) == {list[k] : k \in DOMAIN list}

\* C30: when the delete request of removeGoal fails, the rollback puts the
\* deleted item back into the list and keeps every item that is in the list
\* at that moment, such as a goal added while the request was in flight.
C30_RollbackKeepsChanges ==
    [][\A q \in inflight :
          DeleteFailed(q) => (q.row \in Items(goals') /\ Items(goals) \subseteq Items(goals'))]_vars

\* what the rollback does: the list becomes the snapshot taken at the click
C30_RollbackToSnapshot ==
    [][\A q \in inflight : DeleteFailed(q) => goals' = q.prev]_vars

-----------------------------------------------------------------------------
(* Claims about the month window *)

\* C25: for every local date now and every time-zone offset, monthStartStr
\* is the 1st day and monthEndStr the last day of now's calendar month.
C25_MonthWindow ==
    wpc = "done"
        => /\ monthStartStr = DateString(now.y, now.m + 1, 1)
           /\ monthEndStr = DateString(now.y, now.m + 1, DaysInMonth(now.y, now.m))

\* the window is the calendar month where local time is not ahead of UTC
C25_NotEastOfGreenwich == tz <= 0 => C25_MonthWindow

-----------------------------------------------------------------------------
(* Further claims about the mortgage loop *)

\* the loop has been entered
InLoop == pc \in {"loop", "break", "done"}

\* C26: loop invariant of buildAmortization: after every month the remaining
\* balance plus the principal components accumulated so far equals the
\* original loan, also when a month's principal component is negative.
C26_LoopInvariant ==
    InLoop => RAdd(bal, totalPrincipal(rows)) = loan

\* a second month whose payment was smaller than the interest: the balance
\* has grown above the loan
C26_Witness ==
    /\ pc = "loop" /\ month >= 2
    /\ RLt(principal, Zero)
    /\ RGt(bal, loan)

\* principal > 0, rate >= 0, a whole number of years >= 1, overpayment >= 0
ValidMortgage ==
    /\ RGt(loan, Zero) /\ RGe(annualRate, Zero)
    /\ years.d = 1 /\ years.n >= 1
    /\ RGe(monthlyOverpay, Zero)

RowsNonNegative(rows_) ==
    \A j \in DOMAIN rows_ :
        RGe(rows_[j].Principal, Zero) /\ RGe(rows_[j].Interest, Zero)

\* C27: for valid mortgage inputs the balance reaches 0 no later than month
\* n = termYears * 12: the schedule has at most termYears rows, the loop is
\* ended neither by the n + 600 bound nor by the payment <= interest break,
\* and every row has Principal >= 0 and Interest >= 0.
C27_ValidSchedule ==
    (InLoop /\ ValidMortgage)
        => /\ RLe(RInt(month), n)
           /\ pc # "break"
           /\ Len(rows) <= years.n
           /\ RowsNonNegative(rows)
           /\ pc = "done" => /\ bal = Zero
                             /\ Len(result) <= years.n
                             /\ RowsNonNegative(result)

\* a loan at a positive rate without overpayment was repaid in exactly n
\* months, the last of them paying off what was left
C27_Witness ==
    /\ pc = "done" /\ ValidMortgage
    /\ RGt(annualRate, Zero) /\ monthlyOverpay = Zero
    /\ bal = Zero
    /\ RInt(month) = n
    /\ Len(result) = years.n

-----------------------------------------------------------------------------
(* Further claims about the net salary engine *)

\* gross salary >= 0 and a pension percentage in [0, 100]
ValidSalaryInputs ==
    /\ RGe(salary, Zero)
    /\ IsFin(pensionPct) /\ RGe(pensionPct, Zero) /\ RLe(pensionPct, RInt(100))

\* C28: for a gross salary >= 0 and a pension percentage in [0, 100],
\* pension + incomeTax + nationalInsurance + netAnnual = gross salary: the
\* floor of netAnnual at 0 does not decide the result.
C28_GrossDecomposition ==
    (SalaryDone /\ ValidSalaryInputs)
        => /\ RAdd(RAdd(calc.pension, calc.incomeTax),
                   RAdd(calc.nationalInsurance, calc.netAnnual)) = salary
           /\ calc.netAnnual =
                 RSub(RSub(calc.salaryAfterPension, calc.incomeTax), calc.nationalInsurance)

\* a salary whose four parts are all positive, with the allowance tapered away
C28_Witness ==
    /\ SalaryDone /\ ValidSalaryInputs
    /\ salary = Pounds(150000) /\ pensionPct = RInt(8)
    /\ RGt(calc.pension, Zero) /\ RGt(calc.incomeTax, Zero)
    /\ RGt(calc.nationalInsurance, Zero) /\ RGt(calc.netAnnual, Zero)
    /\ calc.taperedAllowance = Zero

\* a pension percentage in [0, 100)
PensionBelow100 ==
    IsFin(pensionPct) /\ RGe(pensionPct, Zero) /\ RLt(pensionPct, RInt(100))

\* the gross salaries at or above the one calculated, for the same percentage
LargerSalaries ==
    {g \in Salaries : RGe(g, salary) /\ (pensionPct \in WholePoundPcts => g.d = 1)}

\* calculateNetSalary for another gross salary, everything else unchanged
ResultAt(g) == calculateNetSalary(g, pensionPct, hoursPerWeek)

\* salaryAfterPension S lies inside the taper, 100,000 < S < 125,140
InTaper(S) == RGt(S, taperStart) /\ RLt(S, additionalRateLimit)

\* C29 as stated: for a fixed pension percentage in [0, 100) and gross
\* salaries g1 <= g2, incomeTax(g1) <= incomeTax(g2) and
\* netAnnual(g1) <= netAnnual(g2).
C29_Original ==
    (SalaryDone /\ PensionBelow100)
        => \A g \in LargerSalaries :
              /\ RLe(calc.incomeTax, ResultAt(g).incomeTax)
              /\ RLe(calc.netAnnual, ResultAt(g).netAnnual)

\* C29: for a fixed pension percentage in [0, 100) and gross salaries
\* g1 <= g2, incomeTax(g1) <= incomeTax(g2); netAnnual(g1) <= netAnnual(g2)
\* unless g1's salaryAfterPension lies inside the taper and g2's is less than
\* a pound above it, and then netAnnual falls by less than 0.20, the tax on
\* the pound of allowance withdrawn in one step.
C29_Monotone ==
    (SalaryDone /\ PensionBelow100)
        => \A g \in LargerSalaries :
              LET other == ResultAt(g)
                  apart == RSub(other.salaryAfterPension, calc.salaryAfterPension)
              IN  /\ RLe(calc.incomeTax, other.incomeTax)
                  /\ (~InTaper(calc.salaryAfterPension) \/ RGe(apart, One))
                        => RLe(calc.netAnnual, other.netAnnual)
                  /\ RLt(RSub(calc.netAnnual, other.netAnnual), R(1, 5))

\* one penny below 125,140 the net pay is higher than at 125,140, while a
\* pound further up it is higher again
C29_Witness ==
    /\ SalaryDone /\ pensionPct = Zero
    /\ salary = RSub(Pounds(125140), OnePenny)
    /\ Pounds(125140) \in LargerSalaries
    /\ RGt(calc.netAnnual, ResultAt(Pounds(125140)).netAnnual)
    /\ RLt(calc.incomeTax, ResultAt(Pounds(125140)).incomeTax)
    /\ RLt(calc.netAnnual, ResultAt(Pounds(150000)).netAnnual)

====
